---- MODULE Spec2Model ----
(***************************************************************************)
(* Model of open_bus_stride_etl/stats/api.py: the per-day statistics       *)
(* iterator, the latest-snapshots iterator and collect().                  *)
(*                                                                         *)
(* Time is counted in hours since an epoch, in UTC.  A calendar date is    *)
(* its day number.  A snapshot id 'YYYY/MM/DD/HH/MM' is the sequence of    *)
(* its '/'-separated parts with the date collapsed into one part:          *)
(* <<date, hour>>.  SQL booleans are three-valued: "TRUE", "FALSE",        *)
(* "NULL".  Python's None is the empty sequence, a value x is <<x>>.       *)
(***************************************************************************)
EXTENDS Integers, Sequences, FiniteSets, TLC

\* ---------------------------------------------------------------- bounds
MaxSnapshots == 2
MaxRides == 2
MaxLimit == 2
MaxDays == 2

\* ------------------------------------------------------- program constants
\* datetime.timedelta(days=1), in hours
DayHours == 24
\* datetime.timedelta(hours=1), in hours
StaleHours == 1
\* utc offset of pytz.timezone('israel') at local midnight, in hours
IsraelOffset == 2

None == <<>>
Some(x) == <<x>>

\* The date given as from_ (and the clock's date when from_ is None).
FromDates == {3}
RouteIds == {1, 2}
StopIds == {1}
SqlBool == {"TRUE", "FALSE", "NULL"}

VARIABLES siri_snapshot, ride, route, route_stop,
          pc, args, day_i, day_out, snap_rows, snap_pos, snap_out,
          latest_snapshot_datetime, printed, result, queries, now

storage == <<siri_snapshot, ride, route, route_stop>>
vars == <<siri_snapshot, ride, route, route_stop,
          pc, args, day_i, day_out, snap_rows, snap_pos, snap_out,
          latest_snapshot_datetime, printed, result, queries, now>>

\* ------------------------------------------------------------- time, ids
\* pytz.timezone('israel').localize(datetime(date.year, date.month, date.day, 0, 0))
DatetimeFrom(date) == date * DayHours - IsraelOffset
\* datetime_from + datetime.timedelta(days=1)
DatetimeTo(date) == DatetimeFrom(date) + DayHours

\* column <= datetime_to, column >= datetime_from
InDatetimeRange(t, date) == t <= DatetimeTo(date) /\ t >= DatetimeFrom(date)

\* datetime_from.strftime('%Y/%m/%d/'): the date part followed by a separator,
\* i.e. the parts ['YYYY/MM/DD', '']
Strftime(date) == <<date, None>>

\* snapshot_id LIKE pattern || '%': the id starts with the date part and the
\* separator, whatever follows
Like(snapshot_id, pattern) ==
    /\ Len(snapshot_id) >= Len(pattern)
    /\ \A j \in 1..(Len(pattern) - 1) : snapshot_id[j] = pattern[j]

\* parse_siri_snapshot_id: total on 'YYYY/MM/DD/HH/MM' with a valid time of
\* day, an error elsewhere
WellFormed(snapshot_id) == Len(snapshot_id) = 2 /\ snapshot_id[2] \in 0..(DayHours - 1)
parse_siri_snapshot_id(snapshot_id) == snapshot_id[1] * DayHours + snapshot_id[2]

\* column == True and column != True in a WHERE clause: a NULL flag makes
\* either comparison NULL, and the row is not selected
EqTrue(flag) == flag = "TRUE"
NeTrue(flag) == flag = "FALSE"

\* ------------------------------------------------------- storage contents
\* The instants rows are stamped with: the middle of the day before the
\* from_ date, the midnight between the two days, the middle of the from_ date.
Instants ==
    UNION {{DatetimeFrom(d) - 12, DatetimeFrom(d), DatetimeFrom(d) + 12} : d \in FromDates}

\* Well-formed ids of both days, an id with an impossible hour, an id cut
\* after the date.
SnapshotIds ==
    UNION {{<<d, 23>>, <<d - 1, 23>>, <<d, DayHours>>, <<d>>} : d \in FromDates}

SnapshotRows ==
    [snapshot_id : SnapshotIds, etl_start_time : Instants, vehicle_locations : 0..1]

RideRows ==
    [scheduled_start_time : Instants, is_from_gtfs : SqlBool, route_id : RouteIds]

RouteStopRows == [route_id : RouteIds, stop_id : StopIds]

Tables(rows, max) == UNION {[1..n -> rows] : n \in 0..max}

NoRows == <<>>

\* ------------------------------------------------------------ the queries
RECURSIVE SumLocations(_)
SumLocations(keys) ==
    IF keys = {} THEN 0
    ELSE LET k == CHOOSE x \in keys : TRUE
         IN siri_snapshot[k].vehicle_locations + SumLocations(keys \ {k})

\* session.query(SiriSnapshot).filter(etl_start_time <= datetime_to,
\*                                    etl_start_time >= datetime_from)
SnapshotsByEtlStarted(date) ==
    {k \in DOMAIN siri_snapshot : InDatetimeRange(siri_snapshot[k].etl_start_time, date)}

\* The by-identifier count keyed on the start time, like the other count.
SnapshotsBySnapshotIdByTime(date) ==
    {k \in DOMAIN siri_snapshot : InDatetimeRange(siri_snapshot[k].etl_start_time, date)}

\* session.query(SiriSnapshot).filter(snapshot_id.like(strftime + '%'))
SnapshotsBySnapshotId(date) ==
    {k \in DOMAIN siri_snapshot : Like(siri_snapshot[k].snapshot_id, Strftime(date))}

\* session.query(Ride).filter(scheduled_start_time in range, <flag test>)
RidesInRange(date) ==
    {k \in DOMAIN ride : InDatetimeRange(ride[k].scheduled_start_time, date)}

\* session.query(Route).filter(Route.rides.any(...range...), <flag test>)
RoutesWithRides(date) ==
    {r \in DOMAIN route : \E k \in RidesInRange(date) : ride[k].route_id = r}

\* session.query(RouteStop).join(Route).join(Ride).filter(...range...):
\* one row per (route_stop, ride of its route)
RouteStopJoin(date) ==
    {<<rs, k>> \in route_stop \X RidesInRange(date) :
        rs.route_id \in DOMAIN route /\ ride[k].route_id = rs.route_id}

\* session.query(Stop).join(RouteStop).join(Route).join(Ride).filter(...):
\* one row per (stop, route_stop of the stop, ride of its route)
StopJoin(date) ==
    {<<st, j>> \in StopIds \X RouteStopJoin(date) : j[1].stop_id = st}

\* The record yielded for one day (lines 44-99).
DayStats(date) ==
    [date |-> date,
     siri_snapshot_by_etl_started |-> Cardinality(SnapshotsByEtlStarted(date)),
     siri_snapshot_by_snapshot_id |-> Cardinality(SnapshotsBySnapshotId(date)),
     vehicle_location_by_snapshot_id |-> SumLocations(SnapshotsBySnapshotId(date)),
     ride_is_from_gtfs |->
        Cardinality({k \in RidesInRange(date) : EqTrue(ride[k].is_from_gtfs)}),
     ride_not_from_gtfs |->
        Cardinality({k \in RidesInRange(date) : NeTrue(ride[k].is_from_gtfs)}),
     route_by_rides_is_from_gtfs |->
        Cardinality({r \in RoutesWithRides(date) : EqTrue(route[r].is_from_gtfs)}),
     route_by_rides_not_from_gtfs |->
        Cardinality({r \in RoutesWithRides(date) : NeTrue(route[r].is_from_gtfs)}),
     route_stop_by_route_is_from_gtfs |->
        Cardinality({j \in RouteStopJoin(date) : EqTrue(route[j[1].route_id].is_from_gtfs)}),
     route_stop_by_route_not_from_gtfs |->
        Cardinality({j \in RouteStopJoin(date) : NeTrue(route[j[1].route_id].is_from_gtfs)}),
     stop_by_route_stop_is_from_gtfs |->
        Cardinality({j \in StopJoin(date) : EqTrue(route[j[2][1].route_id].is_from_gtfs)}),
     stop_by_route_stop_not_from_gtfs |->
        Cardinality({j \in StopJoin(date) : NeTrue(route[j[2][1].route_id].is_from_gtfs)})]

\* The number of count queries one day's record executes (lines 47-98).
QueriesPerDay == 11

\* ------------------------------------------------ siri_snapshots_iterator
Perms(S) ==
    {f \in [1..Cardinality(S) -> S] : \A i, j \in 1..Cardinality(S) : i # j => f[i] # f[j]}

Take(s, n) == SubSeq(s, 1, IF n < Len(s) THEN n ELSE Len(s))

\* The ordering without desc(): ascending.
OrderByEtlStartTimeAsc ==
    {s \in Perms(DOMAIN siri_snapshot) :
        \A i, j \in 1..Len(s) :
            i < j => siri_snapshot[s[i]].etl_start_time <= siri_snapshot[s[j]].etl_start_time}

\* .order_by(desc(SiriSnapshot.etl_start_time)): any order of the rows that
\* is descending in etl_start_time (rows with equal times come in any order)
OrderByEtlStartTimeDesc ==
    {s \in Perms(DOMAIN siri_snapshot) :
        \A i, j \in 1..Len(s) :
            i < j => siri_snapshot[s[i]].etl_start_time >= siri_snapshot[s[j]].etl_start_time}

\* session.query(SiriSnapshot).order_by(...)[:limit]
SnapshotQuery(limit) == {Take(s, limit) : s \in OrderByEtlStartTimeDesc}

\* The dict yielded for one snapshot (lines 22-31); key is the row it was
\* built from.
Summary(k) ==
    [key |-> k,
     snapshot_id |-> siri_snapshot[k].snapshot_id,
     etl_start_time |-> siri_snapshot[k].etl_start_time,
     vehicle_locations |-> siri_snapshot[k].vehicle_locations]

\* The rows the generator iterates: fetched by the first next(), kept after.
FetchedRows ==
    IF snap_rows = None THEN SnapshotQuery(args.latest_siri_snapshots_limit)
    ELSE {snap_rows[1]}

FetchCost == IF snap_rows = None THEN 1 ELSE 0

\* One next() of siri_snapshots_iterator that yields: the query on the first
\* call, then the row's summary (its vehicle_locations are loaded: a query).
YieldSnapshot(rows) ==
    /\ snap_pos < Len(rows)
    /\ snap_rows' = Some(rows)
    /\ snap_pos' = snap_pos + 1
    /\ snap_out' = Append(snap_out, Summary(rows[snap_pos + 1]))
    /\ queries' = queries + FetchCost + 1

\* One next() of siri_snapshots_iterator that ends the iteration.
EndSnapshots(rows) ==
    /\ snap_pos = Len(rows)
    /\ snap_rows' = Some(rows)
    /\ queries' = queries + FetchCost
    /\ UNCHANGED <<snap_pos, snap_out>>

\* ------------------------------------------------ last_day_stats_iterator
\* if not from_: from_ = today (lines 36-38)
ResolveFrom(from_, today) == IF from_ = None THEN today ELSE from_[1]

\* The days counted forward from from_.
DateOfForward(i) == args.last_days_from + i

\* date = from_ - datetime.timedelta(days=i)
DateOf(i) == args.last_days_from - i

\* One next() of last_day_stats_iterator that yields: the record of day i.
YieldDay ==
    /\ day_i < args.last_days_limit
    /\ day_out' = Append(day_out, DayStats(DateOf(day_i)))
    /\ day_i' = day_i + 1
    /\ queries' = queries + QueriesPerDay

NoArgs ==
    [latest_siri_snapshots_limit |-> 0, last_days_limit |-> 0, last_days_from |-> 0,
     print_results |-> FALSE, validate |-> FALSE]

InitProcess ==
    /\ pc = "idle"
    /\ args = NoArgs
    /\ day_i = 0
    /\ day_out = <<>>
    /\ snap_rows = None
    /\ snap_pos = 0
    /\ snap_out = <<>>
    /\ latest_snapshot_datetime = None
    /\ printed = <<>>
    /\ result = "none"
    /\ queries = 0
    /\ now = None

\* -------------------------------------- last_day_stats_iterator, called alone
CallLastDayStats ==
    /\ pc = "idle"
    /\ \E limit \in 0..MaxDays, from_ \in {None} \cup {Some(d) : d \in FromDates},
          today \in FromDates :
          args' = [NoArgs EXCEPT !.last_days_limit = limit,
                                 !.last_days_from = ResolveFrom(from_, today)]
    /\ pc' = "last_day_stats"
    /\ UNCHANGED <<storage, day_i, day_out, snap_rows, snap_pos, snap_out,
                   latest_snapshot_datetime, printed, result, queries, now>>

NextDay ==
    /\ pc = "last_day_stats"
    /\ YieldDay
    /\ UNCHANGED <<storage, pc, args, snap_rows, snap_pos, snap_out,
                   latest_snapshot_datetime, printed, result, now>>

DaysExhausted ==
    /\ pc = "last_day_stats"
    /\ day_i = args.last_days_limit
    /\ pc' = "done"
    /\ UNCHANGED <<storage, args, day_i, day_out, snap_rows, snap_pos, snap_out,
                   latest_snapshot_datetime, printed, result, queries, now>>

EmptyRideSide ==
    /\ ride = NoRows
    /\ route = NoRows
    /\ route_stop = {}

InitDays ==
    /\ InitProcess
    /\ \/ /\ siri_snapshot \in Tables(SnapshotRows, MaxSnapshots)
          /\ EmptyRideSide
       \/ /\ siri_snapshot = NoRows
          /\ ride \in Tables(RideRows, MaxRides)
          /\ route \in [RouteIds -> [is_from_gtfs : SqlBool]]
          /\ route_stop \in {{}, RouteStopRows}

NextDays == CallLastDayStats \/ NextDay \/ DaysExhausted

SpecDays == InitDays /\ [][NextDays]_vars

\* -------------------------------------- siri_snapshots_iterator, called alone
CallSnapshotsIterator ==
    /\ pc = "idle"
    /\ \E limit \in 0..MaxLimit :
          args' = [NoArgs EXCEPT !.latest_siri_snapshots_limit = limit]
    /\ pc' = "siri_snapshots"
    /\ UNCHANGED <<storage, day_i, day_out, snap_rows, snap_pos, snap_out,
                   latest_snapshot_datetime, printed, result, queries, now>>

NextSnapshot ==
    /\ pc = "siri_snapshots"
    /\ \E rows \in FetchedRows : YieldSnapshot(rows)
    /\ UNCHANGED <<storage, pc, args, day_i, day_out,
                   latest_snapshot_datetime, printed, result, now>>

SnapshotsExhausted ==
    /\ pc = "siri_snapshots"
    /\ \E rows \in FetchedRows : EndSnapshots(rows)
    /\ pc' = "done"
    /\ UNCHANGED <<storage, args, day_i, day_out,
                   latest_snapshot_datetime, printed, result, now>>

InitSnapshots ==
    /\ InitProcess
    /\ siri_snapshot \in Tables(SnapshotRows, MaxSnapshots)
    /\ EmptyRideSide

NextSnapshots == CallSnapshotsIterator \/ NextSnapshot \/ SnapshotsExhausted

SpecSnapshots == InitSnapshots /\ [][NextSnapshots]_vars

\* ----------------------------------------------------------------- collect
\* What print() has written so far: a sequence of [kind, value].
Line(kind, value) == [kind |-> kind, value |-> value]

\* datetime.datetime.now(pytz.UTC) at line 126: from the hour of the latest
\* well-formed id to two hours after it
Nows == UNION {{parse_siri_snapshot_id(<<d, 23>>) + a : a \in 0..2} : d \in FromDates}

CallCollect ==
    /\ pc = "idle"
    /\ \E latest \in 0..MaxLimit, days \in 0..MaxDays,
          from_ \in {None} \cup {Some(d) : d \in FromDates}, today \in FromDates,
          pr \in BOOLEAN, va \in BOOLEAN :
          args' = [latest_siri_snapshots_limit |-> latest,
                   last_days_limit |-> days,
                   last_days_from |-> ResolveFrom(from_, today),
                   print_results |-> pr,
                   validate |-> va]
    /\ pc' = "collect"
    /\ UNCHANGED <<storage, day_i, day_out, snap_rows, snap_pos, snap_out,
                   latest_snapshot_datetime, printed, result, queries, now>>

\* Lines 104-111 and 134-136: res is built (the count query runs, the two
\* generators are created and not started), then the mode is looked at.
CollectStart ==
    /\ pc = "collect"
    /\ queries' = queries + 1
    /\ IF args.print_results
       THEN /\ printed' = <<Line("total_siri_snapshots", Len(siri_snapshot)),
                            Line("last_days", args.last_days_limit)>>
            /\ pc' = "print_days"
            /\ UNCHANGED result
       ELSE /\ result' = IF args.validate THEN "AssertionError" ELSE "res"
            /\ pc' = IF args.validate THEN "raised" ELSE "returned"
            /\ UNCHANGED printed
    /\ UNCHANGED <<storage, args, day_i, day_out, snap_rows, snap_pos, snap_out,
                   latest_snapshot_datetime, now>>

\* Lines 112-113: one turn of the loop over last_day_stats_iterator.
CollectPrintDay ==
    /\ pc = "print_days"
    /\ YieldDay
    /\ printed' = Append(printed, Line("day", DayStats(DateOf(day_i))))
    /\ UNCHANGED <<storage, pc, args, snap_rows, snap_pos, snap_out,
                   latest_snapshot_datetime, result, now>>

\* Lines 114-115: the loop over the days ends.
CollectDaysDone ==
    /\ pc = "print_days"
    /\ day_i = args.last_days_limit
    /\ printed' = Append(printed, Line("latest_siri_snapshots", args.latest_siri_snapshots_limit))
    /\ latest_snapshot_datetime' = None
    /\ pc' = "print_snapshots"
    /\ UNCHANGED <<storage, args, day_i, day_out, snap_rows, snap_pos, snap_out,
                   result, queries, now>>

\* The tracking without the comparison: the last id seen wins.
NewLatestLastSeen(latest, snapshot_datetime) == Some(snapshot_datetime)

\* if not latest_snapshot_datetime or latest_snapshot_datetime < snapshot_datetime
NewLatest(latest, snapshot_datetime) ==
    IF latest = None \/ latest[1] < snapshot_datetime
    THEN Some(snapshot_datetime) ELSE latest

\* Lines 116-120: one turn of the loop over siri_snapshots_iterator; the id
\* is parsed before the summary is printed.
CollectPrintSnapshot ==
    /\ pc = "print_snapshots"
    /\ \E rows \in FetchedRows :
          /\ YieldSnapshot(rows)
          /\ LET snapshot == Summary(rows[snap_pos + 1])
             IN IF WellFormed(snapshot.snapshot_id)
                THEN /\ latest_snapshot_datetime' =
                            NewLatest(latest_snapshot_datetime,
                                      parse_siri_snapshot_id(snapshot.snapshot_id))
                     /\ printed' = Append(printed, Line("siri_snapshot", snapshot))
                     /\ UNCHANGED <<pc, result>>
                ELSE /\ result' = "MalformedIdentifier"
                     /\ pc' = "raised"
                     /\ UNCHANGED <<latest_snapshot_datetime, printed>>
    /\ UNCHANGED <<storage, args, day_i, day_out, now>>

\* latest_snapshot_datetime < now - timedelta(hours=1)
OlderThanOneHour(latest, n) == latest < n - StaleHours

\* Lines 121-131.
Validation(latest, n) ==
    IF latest = None THEN "VALIDATION ERROR: no latest snapshot"
    ELSE IF OlderThanOneHour(latest[1], n)
         THEN "VALIDATION ERROR: latest snapshot is older than 1 hour"
         ELSE "VALIDATION SUCCESS: latest snapshot is not older then 1 hour"

IsValid(message) ==
    IF message = "VALIDATION SUCCESS: latest snapshot is not older then 1 hour"
    THEN "True" ELSE "False"

\* collect falling off its end instead of returning True.
ReturnNone == "None"

\* return True (line 133)
ReturnTrue == "True"

\* Lines 121-133: the loop over the snapshots ends, the verdict is returned.
CollectSnapshotsDone ==
    /\ pc = "print_snapshots"
    /\ \E rows \in FetchedRows : EndSnapshots(rows)
    /\ IF args.validate
       THEN \E n \in Nows :
               /\ now' = Some(n)
               /\ printed' = Append(printed,
                                Line("validation", Validation(latest_snapshot_datetime, n)))
               /\ result' = IsValid(Validation(latest_snapshot_datetime, n))
       ELSE /\ result' = ReturnTrue
            /\ UNCHANGED <<now, printed>>
    /\ pc' = "returned"
    /\ UNCHANGED <<storage, args, day_i, day_out, latest_snapshot_datetime>>

\* The failure caught and the run carried on to its return.
QueryFailsSwallowed ==
    /\ pc \in {"collect", "print_days", "print_snapshots"}
    /\ result' = "True"
    /\ pc' = "returned"
    /\ UNCHANGED <<storage, args, day_i, day_out, snap_rows, snap_pos, snap_out,
                   latest_snapshot_datetime, printed, queries, now>>

\* The storage collaborator fails the query that is about to run: the count
\* of line 105, a day's counts, the snapshot query or a summary's lazy load.
\* Nothing in api.py catches it.
QueryPending ==
    CASE pc = "collect" -> TRUE
      [] pc = "print_days" -> day_i < args.last_days_limit
      [] pc = "print_snapshots" ->
            IF snap_rows = None THEN TRUE ELSE snap_pos < Len(snap_rows[1])
      [] OTHER -> FALSE

QueryFails ==
    /\ QueryPending
    /\ result' = "StorageError"
    /\ pc' = "raised"
    /\ UNCHANGED <<storage, args, day_i, day_out, snap_rows, snap_pos, snap_out,
                   latest_snapshot_datetime, printed, queries, now>>

\* A fixed ride side: one official and one unflagged ride of route 1 on the
\* from_ date's midnight, route 1 with a stop.
SampleRideSide ==
    /\ ride \in {<<[scheduled_start_time |-> DatetimeFrom(d), is_from_gtfs |-> "TRUE", route_id |-> 1],
                   [scheduled_start_time |-> DatetimeFrom(d), is_from_gtfs |-> "NULL", route_id |-> 1]>>
                 : d \in FromDates}
    /\ route = [r \in RouteIds |-> [is_from_gtfs |-> "TRUE"]]
    /\ route_stop = RouteStopRows

Init ==
    /\ InitProcess
    /\ siri_snapshot \in Tables({r \in SnapshotRows : r.vehicle_locations = 1}, MaxSnapshots)
    /\ SampleRideSide

Next ==
    \/ CallCollect
    \/ CollectStart
    \/ CollectPrintDay
    \/ CollectDaysDone
    \/ CollectPrintSnapshot
    \/ CollectSnapshotsDone
    \/ QueryFails

Spec == Init /\ [][Next]_vars

\* ================================================================= claims
Terminal == pc \in {"returned", "raised", "done"}
Rendered == args.print_results
Kinds(kind) == {i \in DOMAIN printed : printed[i].kind = kind}
LastLine == printed[Len(printed)]

\* window_start <= t < window_start + 24h
InHalfOpenWindow(t, date) == DatetimeFrom(date) <= t /\ t < DatetimeFrom(date) + DayHours

ParsedOf(summaries) == {parse_siri_snapshot_id(summaries[i].snapshot_id) : i \in DOMAIN summaries}
MaxOf(S) == CHOOSE m \in S : \A x \in S : x <= m

\* C1: collect(print_results=False, validate=True) fails with the
\* precondition violation before any storage query has been executed.
C1_NoQueryBeforePreconditionFailure ==
    result = "AssertionError" => queries = 0

\* C2: with render and validation requested, the returned verdict is true
\* exactly when at least one summary was yielded and the greatest timestamp
\* parsed from the yielded identifiers, whatever their order, is not older
\* than now minus one hour; with nothing yielded the verdict is false and the
\* diagnostic is the 'no latest snapshot' one, not the 'older than 1 hour' one.
C2_FreshnessVerdict ==
    (pc = "returned" /\ Rendered /\ args.validate) =>
        /\ result \in {"True", "False"}
        /\ result = "True" <=>
              (snap_out # <<>> /\ MaxOf(ParsedOf(snap_out)) >= now[1] - StaleHours)
        /\ snap_out = <<>> =>
              LastLine = Line("validation", "VALIDATION ERROR: no latest snapshot")
        /\ (snap_out # <<>> /\ result = "False") =>
              LastLine = Line("validation", "VALIDATION ERROR: latest snapshot is older than 1 hour")

\* A fresh verdict whose greatest timestamp is not that of the first summary.
C2_Witness ==
    /\ pc = "returned" /\ Rendered /\ args.validate /\ result = "True"
    /\ Len(snap_out) = 2
    /\ parse_siri_snapshot_id(snap_out[1].snapshot_id)
          > parse_siri_snapshot_id(snap_out[2].snapshot_id)
    /\ now[1] = parse_siri_snapshot_id(snap_out[1].snapshot_id) + StaleHours

\* C3: in every day record, ride.is_from_gtfs + ride.not_from_gtfs is the
\* number of rides whose scheduled_start_time is in the day's window, for
\* flags true, false or unset.
C3_RideSplitComplete ==
    \A i \in DOMAIN day_out :
        day_out[i].ride_is_from_gtfs + day_out[i].ride_not_from_gtfs
            = Cardinality(RidesInRange(day_out[i].date))

\* C4: for two distinct days of one call, a snapshot or ride stamped in the
\* half-open window of one day is not counted by the timestamp-based counts
\* of the other, and a day's by_etl_started is the number of snapshots
\* stamped in its own half-open window.
C4_WindowIsolation ==
    \A i, j \in DOMAIN day_out :
        /\ day_out[j].siri_snapshot_by_etl_started =
              Cardinality({k \in DOMAIN siri_snapshot :
                              InHalfOpenWindow(siri_snapshot[k].etl_start_time, day_out[j].date)})
        /\ i # j =>
              /\ \A k \in DOMAIN siri_snapshot :
                    InHalfOpenWindow(siri_snapshot[k].etl_start_time, day_out[i].date)
                        => k \notin SnapshotsByEtlStarted(day_out[j].date)
              /\ \A k \in DOMAIN ride :
                    InHalfOpenWindow(ride[k].scheduled_start_time, day_out[i].date)
                        => k \notin RidesInRange(day_out[j].date)

HasDatePrefix(snapshot_id, date) == Len(snapshot_id) > 1 /\ Head(snapshot_id) = date
StartedOn(k, date) ==
    /\ siri_snapshot[k].etl_start_time >= DatetimeFrom(date)
    /\ siri_snapshot[k].etl_start_time <= DatetimeTo(date)
LocationsOf(keys) ==
    Cardinality(UNION {{<<k, n>> : n \in 1..siri_snapshot[k].vehicle_locations} : k \in keys})

\* C5: in every day record, by_snapshot_id is the number of snapshots whose
\* id starts with the day's date prefix whatever their etl_start_time,
\* by_etl_started is the number of snapshots whose etl_start_time is in the
\* day's range (datetime_from to datetime_to) whatever their id, and the
\* vehicle location count is the number of locations owned by the snapshots
\* of the by-identifier count.
C5_IndependentKeys ==
    \A i \in DOMAIN day_out :
        LET d == day_out[i].date
            byId == {k \in DOMAIN siri_snapshot : HasDatePrefix(siri_snapshot[k].snapshot_id, d)}
        IN /\ day_out[i].siri_snapshot_by_snapshot_id = Cardinality(byId)
           /\ day_out[i].siri_snapshot_by_etl_started =
                 Cardinality({k \in DOMAIN siri_snapshot : StartedOn(k, d)})
           /\ day_out[i].vehicle_location_by_snapshot_id = LocationsOf(byId)

\* One snapshot with a location, named for the day before and started on
\* the from_ date: by-timestamp on one day, by-identifier on the other.
C5_Witness ==
    /\ Len(day_out) = 2
    /\ Len(siri_snapshot) = 1
    /\ day_out[1].siri_snapshot_by_etl_started = 1
    /\ day_out[1].siri_snapshot_by_snapshot_id = 0
    /\ day_out[2].siri_snapshot_by_etl_started = 0
    /\ day_out[2].siri_snapshot_by_snapshot_id = 1
    /\ day_out[2].vehicle_location_by_snapshot_id = 1

Smaller(a, b) == IF a < b THEN a ELSE b

\* C6: siri_snapshots_iterator(limit) yields min(limit, N) summaries, those
\* of the snapshots with the greatest etl_start_time, in descending order of
\* etl_start_time, each with the id and the number of locations of its row.
C6_LatestSnapshots ==
    /\ \A i \in DOMAIN snap_out :
          /\ snap_out[i].key \in DOMAIN siri_snapshot
          /\ snap_out[i].snapshot_id = siri_snapshot[snap_out[i].key].snapshot_id
          /\ snap_out[i].vehicle_locations = siri_snapshot[snap_out[i].key].vehicle_locations
          /\ \A j \in DOMAIN snap_out :
                i < j => /\ snap_out[i].key # snap_out[j].key
                         /\ snap_out[i].etl_start_time >= snap_out[j].etl_start_time
          /\ \A k \in DOMAIN siri_snapshot :
                (\A j \in 1..i : snap_out[j].key # k)
                    => siri_snapshot[k].etl_start_time <= snap_out[i].etl_start_time
    /\ pc = "done" =>
          Len(snap_out) = Smaller(args.latest_siri_snapshots_limit, Len(siri_snapshot))

\* The limit cuts the list: one of two snapshots, the later one, is yielded.
C6_Witness ==
    /\ pc = "done"
    /\ args.latest_siri_snapshots_limit = 1
    /\ Len(siri_snapshot) = 2
    /\ Len(snap_out) = 1
    /\ \E k \in DOMAIN siri_snapshot :
          siri_snapshot[k].etl_start_time < snap_out[1].etl_start_time

StorageEmpty == siri_snapshot = NoRows /\ ride = NoRows /\ route = NoRows /\ route_stop = {}

ZeroCounts(date) ==
    [date |-> date,
     siri_snapshot_by_etl_started |-> 0, siri_snapshot_by_snapshot_id |-> 0,
     vehicle_location_by_snapshot_id |-> 0,
     ride_is_from_gtfs |-> 0, ride_not_from_gtfs |-> 0,
     route_by_rides_is_from_gtfs |-> 0, route_by_rides_not_from_gtfs |-> 0,
     route_stop_by_route_is_from_gtfs |-> 0, route_stop_by_route_not_from_gtfs |-> 0,
     stop_by_route_stop_is_from_gtfs |-> 0, stop_by_route_stop_not_from_gtfs |-> 0]

\* C7: last_day_stats_iterator(limit=L, from_=D) yields L records, the i-th
\* (from 0) for day D - i, each computed by the pull that yields it (no
\* query runs before the first pull, one day's queries per pull); with
\* empty storage every count of every record is zero.
C7_DayRecords ==
    /\ Len(day_out) = day_i
    /\ queries = QueriesPerDay * Len(day_out)
    /\ \A i \in DOMAIN day_out : day_out[i].date = args.last_days_from - (i - 1)
    /\ pc = "done" => Len(day_out) = args.last_days_limit
    /\ StorageEmpty => \A i \in DOMAIN day_out : day_out[i] = ZeroCounts(day_out[i].date)

\* Two days over empty storage, pulled to the end.
C7_Witness ==
    /\ pc = "done"
    /\ StorageEmpty
    /\ Len(day_out) = 2
    /\ day_out[2].date = day_out[1].date - 1

AllWellFormed == \A i \in DOMAIN snap_out : WellFormed(snap_out[i].snapshot_id)

\* C8 as stated: with render and without validation, collect completes and
\* returns true for every storage content, malformed identifiers included
\* (the storage collaborator answering every query).
C8_AlwaysTrue ==
    (Terminal /\ Rendered /\ ~args.validate /\ result # "StorageError") =>
        (pc = "returned" /\ result = "True")

\* C8 as amended: with render and without validation, collect returns true
\* for every storage content whose listed snapshots have well-formed
\* identifiers (an empty inventory and stale snapshots included); a listed
\* snapshot with a malformed identifier makes the call fail with the parse
\* error, before that summary is rendered.
C8_TrueUnlessMalformed ==
    (Terminal /\ Rendered /\ ~args.validate /\ result # "StorageError") =>
        IF AllWellFormed
        THEN pc = "returned" /\ result = "True"
        ELSE /\ pc = "raised" /\ result = "MalformedIdentifier"
             /\ ~WellFormed(snap_out[Len(snap_out)].snapshot_id)
             /\ Cardinality(Kinds("siri_snapshot")) = Len(snap_out) - 1

\* True is returned over two listed snapshots, both older than any clock
\* reading of the model.
C8_Witness ==
    /\ pc = "returned" /\ Rendered /\ ~args.validate /\ result = "True"
    /\ Len(snap_out) = 2
    /\ \A i \in DOMAIN snap_out : \A n \in Nows :
          OlderThanOneHour(parse_siri_snapshot_id(snap_out[i].snapshot_id), n)

\* C9 as stated: when a storage query fails during collect, no day record
\* or snapshot summary of that invocation has been rendered, and no verdict
\* is returned.
C9_NoPartialOutput ==
    result = "StorageError" =>
        /\ pc = "raised"
        /\ Kinds("day") = {} /\ Kinds("siri_snapshot") = {}

\* C9 as amended: a storage query failure ends the invocation at once with
\* the error and no verdict: no step follows it, and a value is returned in
\* render mode only after every day record and every snapshot summary was
\* computed and rendered; the records rendered before the failing query
\* remain rendered.
C9_FailureAborts ==
    /\ result = "StorageError" =>
          /\ pc = "raised"
          /\ ~ENABLED Next
          /\ Kinds("validation") = {}
          /\ Rendered => /\ Cardinality(Kinds("day")) = Len(day_out)
                         /\ Cardinality(Kinds("siri_snapshot")) = Len(snap_out)
    /\ (pc = "returned" /\ Rendered) =>
          /\ Len(day_out) = args.last_days_limit
          /\ Cardinality(Kinds("day")) = args.last_days_limit
          /\ snap_rows # None
          /\ Len(snap_out) = Len(snap_rows[1])
          /\ Cardinality(Kinds("siri_snapshot")) = Len(snap_out)

\* The query of the second day fails after the first day was rendered.
C9_Witness ==
    /\ result = "StorageError"
    /\ args.last_days_limit = 2
    /\ Cardinality(Kinds("day")) = 1

RidesOfRoute(r, date) == {k \in RidesInRange(date) : ride[k].route_id = r}

\* C10: in every day record a route is counted at most once in the route
\* group, however many of its rides are in the day's window, and a
\* route-stop link whose route has k rides in the window adds k to the
\* route_stop count of the day.
C10_ExistenceAndJoinCounts ==
    \A i \in DOMAIN day_out :
        LET d == day_out[i].date
        IN /\ day_out[i].route_by_rides_is_from_gtfs + day_out[i].route_by_rides_not_from_gtfs
                 <= Cardinality({r \in DOMAIN route : RidesOfRoute(r, d) # {}})
           /\ day_out[i].route_stop_by_route_is_from_gtfs
                 + day_out[i].route_stop_by_route_not_from_gtfs
                 = Cardinality({<<rs, k>> \in route_stop \X DOMAIN ride :
                                   k \in RidesOfRoute(rs.route_id, d)})

====
